---- MODULE Spec2Model ----
(***************************************************************************)
(* Veo Animator: the App component (state hooks and handlers) and the      *)
(* generation client generateVeoVideo (submit, poll loop, fetch, blob).    *)
(*                                                                         *)
(* Every action is one run-to-completion step of the browser's event loop: *)
(* a UI event handler up to its first pending await, or the continuation   *)
(* of an await together with the microtasks it triggers (a rejection of    *)
(* generateVeoVideo and the catch block of handleGenerate run in the same  *)
(* step, no UI event can come between them).                               *)
(***************************************************************************)
EXTENDS Integers, Sequences, FiniteSets, TLC

\* ------------------------------------------------------------------ bounds

\* handleGenerate calls started in one session
MaxCalls == 2
\* status re-queries one generateVeoVideo call issues before the remote
\* service has to answer with a completed handle or an error
MaxPolls == 2
\* distinct files the user picks from
NumImages == 2
\* FileReaders that are reading at the same time
MaxReaders == 1
\* the values Math.random() is drawn from are the multiples of 1 / RandomGrain
RandomGrain == 3

\* ------------------------------------------------------------------- texts
\* A text is a sequence of atoms; an atom is a piece of text that no search
\* pattern of the program straddles.  The atoms that carry pattern text are
\* "permission", "Permission", "PERMISSION", "_DENIED", "403" and the two
\* spellings of "Requested entity was not found"; all others are filler.

Undefined == <<"<undefined>">>
Null == 0

\* String.prototype.toLowerCase on one atom
LowerAtom(a) ==
    CASE a = "PERMISSION" -> "permission"
      [] a = "Permission" -> "permission"
      [] a = "_DENIED" -> "_denied"
      [] a = "Requested entity was not found" -> "requested entity was not found"
      [] OTHER -> a

toLowerCase(s) == [i \in 1..Len(s) |-> LowerAtom(s[i])]

\* String.prototype.includes: pat occurs in s as a contiguous piece
includes(s, pat) ==
    \E i \in 1..(Len(s) - Len(pat) + 1) : SubSeq(s, i, i + Len(pat) - 1) = pat

\* a value that an `x || y` or `!x` test takes as false
Falsy(s) == s = Undefined \/ s = <<>>

\* geminiService.ts, the messages of the errors it throws
SubmitPermissionMessage ==
    <<"PERMISSION", "_DENIED",
      ": Please ensure you selected an API key from a project with active billing.">>
PollPermissionMessage ==
    <<"API Key session expired or lacks ", "permission",
      ". Please re-select a key from a paid project.">>
NoLinkMessage == <<"Generation completed but no video link was found.">>
ForbiddenMessage ==
    <<"PERMISSION", "_DENIED",
      ": Access to the generated file was denied. Check project billing.">>
DownloadFailedMessage(statusText) == <<"Failed to download video: ">> \o statusText

\* App, the texts of handleGenerate
PermissionDeniedText ==
    <<"Permission",
      " Denied. Veo requires an API key from a project with billing enabled. Please re-select your key.">>
FallbackText == <<"Something went wrong during generation.">>

\* progress texts
PreparingMessage == <<"Preparing image...">>
InitiatingMessage == <<"Initiating video generation process...">>
DreamingMessage ==
    <<"Veo is dreaming up your video. This usually takes a few minutes...">>
ReadyMessage == <<"Video ready! Fetching your masterpiece...">>

\* a faulty variant: a pool whose first text is the empty string
REASSURING_MESSAGES_Blank ==
    << <<>>,
       <<"Simulating focus breathing for that authentic look...">>,
       <<"Adding natural light shifts and exposure variations...">>,
       <<"The engine is rendering environmental audio textures...">>,
       <<"Fine-tuning the subtle camera shake for realism...">>,
       <<"Applying the finishing touches to the smartphone aesthetic...">>,
       <<"We're almost there, authenticating every frame...">>,
       <<"Generating the raw rear-camera feel...">>,
       <<"Nearly finished! Preparing the final MP4 stream...">> >>
REASSURING_MESSAGES ==
    << <<"Our AI is meticulously crafting the handheld motion...">>,
       <<"Simulating focus breathing for that authentic look...">>,
       <<"Adding natural light shifts and exposure variations...">>,
       <<"The engine is rendering environmental audio textures...">>,
       <<"Fine-tuning the subtle camera shake for realism...">>,
       <<"Applying the finishing touches to the smartphone aesthetic...">>,
       <<"We're almost there, authenticating every frame...">>,
       <<"Generating the raw rear-camera feel...">>,
       <<"Nearly finished! Preparing the final MP4 stream...">> >>

\* Math.random() is a number in [0, 1): here k / RandomGrain, k < RandomGrain
RandomDraws == 0..(RandomGrain - 1)
\* REASSURING_MESSAGES[Math.floor(Math.random() * REASSURING_MESSAGES.length)],
\* the array indexed from 0
getRandomReassuringMessage(k) ==
    REASSURING_MESSAGES[((k * Len(REASSURING_MESSAGES)) \div RandomGrain) + 1]

\* --------------------------------------------------- the remote's answers
\* messages of the errors the SDK, fetch and Response.blob reject with
RemoteErrors ==
    { <<>>,
      <<"Quota exceeded for this project">>,
      <<"The caller does not have ", "permission">>,
      <<"PERMISSION", "_DENIED">>,
      <<"Permission", " denied on resource">>,
      <<"Requested entity was not found", ".">>,
      <<"Request failed with status ", "403">> }

\* operation.response?.generatedVideos?.[0]?.video?.uri
UriValues == { Undefined, <<>>, <<"https://video.example/v1?alt=media">> }

\* an operation handle; a pending one carries no response
Handles ==
    { [done |-> FALSE, uri |-> Undefined] } \cup [done : {TRUE}, uri : UriValues]
NoHandle == [done |-> FALSE, uri |-> Undefined]

\* the responses of fetch: Response.ok is true exactly for 200..299
Responses ==
    { [status |-> 200, statusText |-> <<"OK">>],
      [status |-> 403, statusText |-> <<"Forbidden">>],
      [status |-> 404, statusText |-> <<"Not Found">>],
      [status |-> 500, statusText |-> <<>>] }
ResponseOk(resp) == resp.status >= 200 /\ resp.status <= 299
NoResponse == [status |-> 0, statusText |-> <<>>]

\* ------------------------------------------------------------------- state
VARIABLES
    hasApiKey,     \* useState<boolean>(false)
    image,         \* useState<string | null>: Null or the file read
    videoUrl,      \* useState<string | null>: Null or the blob URL of call c
    genState,      \* useState<GenerationState>
    calls,         \* the handleGenerate calls: call id -> its position
    nCalls,        \* handleGenerate calls started
    keyCheck,      \* checkApiKey of the mount effect: "pending" or "done"
    readers,       \* FileReaders reading: the files being read
    observed       \* the call whose history (log, answers, result) is kept,
                   \* or NoneObserved; history is no state of the program

vars == <<hasApiKey, image, videoUrl, genState, calls, nCalls, keyCheck, readers, observed>>

CallIds == 1..MaxCalls
\* an id no call has
NoneObserved == MaxCalls + 1
Images == 1..NumImages

GenerationState(status, progressMessage, error) ==
    [status |-> status, progressMessage |-> progressMessage, error |-> error]

\* a call that has not been started
NoCall ==
    [pc |-> "none", image |-> Null, operation |-> NoHandle, requeries |-> 0,
     log |-> <<>>, blankProgress |-> FALSE, cause |-> Undefined,
     response |-> NoResponse, result |-> Undefined]

Init ==
    /\ hasApiKey = FALSE
    /\ image = Null
    /\ videoUrl = Null
    /\ genState = GenerationState("idle", Undefined, Undefined)
    /\ calls = [c \in CallIds |-> NoCall]
    /\ nCalls = 0
    /\ keyCheck = "pending"
    /\ readers = {}
    /\ observed \in {NoneObserved} \cup CallIds

\* ------------------------------------------------------------ App, the UI
\* the early return of the render: the key screen replaces the whole UI
KeyScreenShown == ~hasApiKey
\* a faulty variant: the render without its early return
MainUiShownUngated == TRUE
MainUiShown == hasApiKey
\* the drop zone opens the file dialog only while no image is held
FileDialogEnabled == MainUiShown /\ image = Null
\* the trash button is rendered inside the image preview
ResetButtonShown == MainUiShown /\ image # Null
\* the controls panel (aspect ratio, quality, ...)
ControlsShown == image # Null /\ genState.status = "idle"
\* the Generate button is the last control of the controls panel
GenerateButtonShown == MainUiShown /\ ControlsShown

\* checkApiKey: hasSelectedApiKey() answers (ok) with selected, or rejects
checkApiKey(ok, selected) ==
    /\ keyCheck = "pending"
    /\ keyCheck' = "done"
    /\ hasApiKey' = (IF ok THEN selected ELSE FALSE)
    /\ UNCHANGED <<image, videoUrl, genState, calls, nCalls, readers, observed>>

\* handleSelectKey: openSelectKey() resolves (ok) or rejects.  The handler
\* reads and writes nothing before its await, so the click and the
\* continuation are one step.
handleSelectKey(ok) ==
    /\ KeyScreenShown
    /\ hasApiKey' = (IF ok THEN TRUE ELSE hasApiKey)
    /\ UNCHANGED <<image, videoUrl, genState, calls, nCalls, keyCheck, readers, observed>>

\* handleFileChange: the user picked file f, a FileReader starts reading it
handleFileChange(f) ==
    /\ FileDialogEnabled
    /\ f \notin readers
    /\ Cardinality(readers) < MaxReaders
    /\ readers' = readers \cup {f}
    /\ UNCHANGED <<hasApiKey, image, videoUrl, genState, calls, nCalls, keyCheck, observed>>

\* reader.onloadend: reader.result is the data URL, or null when reading failed
onloadend(f, ok) ==
    /\ f \in readers
    /\ readers' = readers \ {f}
    /\ image' = (IF ok THEN f ELSE Null)
    /\ videoUrl' = Null
    /\ genState' = GenerationState("idle", Undefined, Undefined)
    /\ UNCHANGED <<hasApiKey, calls, nCalls, keyCheck, observed>>

reset ==
    /\ ResetButtonShown
    /\ image' = Null
    /\ videoUrl' = Null
    /\ genState' = GenerationState("idle", Undefined, Undefined)
    /\ UNCHANGED <<hasApiKey, calls, nCalls, keyCheck, readers, observed>>

\* ------------------------------------------------- generateVeoVideo, steps
Count(s, x) == Cardinality({i \in DOMAIN s : s[i] = x})
Log(call, events) == [call EXCEPT !.log = @ \o events]

\* a faulty variant: the callback sets a whole new state
onProgressWhole(gs, msg) == GenerationState("generating", msg, Undefined)
\* (msg) => setGenState(prev => ({ ...prev, progressMessage: msg }))
onProgress(gs, msg) == [gs EXCEPT !.progressMessage = msg]
\* the history of a call that passed msg to onProgress: the event, and whether
\* any text it passed so far was blank
Reported(call, event, msg) ==
    [Log(call, <<event>>) EXCEPT !.blankProgress = @ \/ Falsy(msg)]

\* throw inside the outer try: the outer catch rethrows, the promise rejects
Throw(call, message) == [call EXCEPT !.pc = "rejected", !.result = message]

\* the catch of the submit call
SubmitErrorMessage(e) ==
    IF includes(e, <<"permission">>) \/ includes(e, <<"PERMISSION", "_DENIED">>)
    THEN SubmitPermissionMessage
    ELSE e

\* a faulty variant: the catch of the re-query rethrows every error as it is
PollErrorMessageRaw(e) == e
\* the catch of the re-query
PollErrorMessage(e) ==
    IF \/ includes(e, <<"Requested entity was not found">>)
       \/ includes(e, <<"permission">>)
       \/ includes(e, <<"PERMISSION", "_DENIED">>)
    THEN PollPermissionMessage
    ELSE e

\* a faulty variant: no branch for status 403
DownloadErrorMessageGeneric(resp) == DownloadFailedMessage(resp.statusText)
\* a non-success response
DownloadErrorMessage(resp) ==
    IF resp.status = 403 THEN ForbiddenMessage
    ELSE DownloadFailedMessage(resp.statusText)

\* a faulty variant: `if` for `while`, the handle is tested before the first wait only
LoopTestOnce(call, gs) ==
    IF ~call.operation.done /\ call.requeries = 0
    THEN [call |-> [call EXCEPT !.pc = "wait"], gs |-> gs]
    ELSE IF Falsy(call.operation.uri)
    THEN [call |-> Throw(Log(call, <<"link">>), NoLinkMessage), gs |-> gs]
    ELSE [call |-> [Log(Reported(Log(call, <<"link">>), "progress:ready", ReadyMessage),
                           <<"fetch">>) EXCEPT !.pc = "fetch"],
          gs |-> onProgress(gs, ReadyMessage)]

\* a faulty variant: the link is used without the test for its absence
LoopTestNoLinkTest(call, gs) ==
    IF ~call.operation.done
    THEN [call |-> [call EXCEPT !.pc = "wait"], gs |-> gs]
    ELSE [call |-> [Log(Reported(Log(call, <<"link">>), "progress:ready", ReadyMessage),
                           <<"fetch">>) EXCEPT !.pc = "fetch"],
          gs |-> onProgress(gs, ReadyMessage)]

\* a faulty variant: do ... while, the first wait and re-query come before the test
LoopTestDoWhile(call, gs) ==
    IF ~call.operation.done \/ call.requeries = 0
    THEN [call |-> [call EXCEPT !.pc = "wait"], gs |-> gs]
    ELSE IF Falsy(call.operation.uri)
    THEN [call |-> Throw(Log(call, <<"link">>), NoLinkMessage), gs |-> gs]
    ELSE [call |-> [Log(Reported(Log(call, <<"link">>), "progress:ready", ReadyMessage),
                           <<"fetch">>) EXCEPT !.pc = "fetch"],
          gs |-> onProgress(gs, ReadyMessage)]

\* a faulty variant: "Video ready" is reported before the link is tested
LoopTestReadyFirst(call, gs) ==
    IF ~call.operation.done
    THEN [call |-> [call EXCEPT !.pc = "wait"], gs |-> gs]
    ELSE IF Falsy(call.operation.uri)
    THEN [call |-> Throw(Log(Reported(call, "progress:ready", ReadyMessage), <<"link">>),
                         NoLinkMessage),
          gs |-> onProgress(gs, ReadyMessage)]
    ELSE [call |-> [Log(Reported(call, "progress:ready", ReadyMessage), <<"link", "fetch">>)
                       EXCEPT !.pc = "fetch"],
          gs |-> onProgress(gs, ReadyMessage)]

\* a faulty variant: a not-done handle is re-queried at once, with no wait
LoopTestNoWait(call, gs) ==
    IF ~call.operation.done
    THEN [call |-> [Log(call, <<"requery">>) EXCEPT !.pc = "poll", !.requeries = @ + 1],
          gs |-> gs]
    ELSE IF Falsy(call.operation.uri)
    THEN [call |-> Throw(Log(call, <<"link">>), NoLinkMessage), gs |-> gs]
    ELSE [call |-> [Log(Reported(Log(call, <<"link">>), "progress:ready", ReadyMessage),
                           <<"fetch">>) EXCEPT !.pc = "fetch"],
          gs |-> onProgress(gs, ReadyMessage)]

\* the test of the while loop on the handle just obtained, and what follows
\* it up to the next await: the timer, or the link and the fetch
LoopTest(call, gs) ==
    IF ~call.operation.done
    THEN [call |-> [call EXCEPT !.pc = "wait"], gs |-> gs]
    ELSE IF Falsy(call.operation.uri)
    THEN [call |-> Throw(Log(call, <<"link">>), NoLinkMessage), gs |-> gs]
    ELSE [call |-> [Log(Reported(Log(call, <<"link">>), "progress:ready", ReadyMessage),
                           <<"fetch">>) EXCEPT !.pc = "fetch"],
          gs |-> onProgress(gs, ReadyMessage)]

HandleTag(h) == IF h.done THEN "handle:done" ELSE "handle:pending"

\* ------------------------------------------- handleGenerate, continuation
\* the catch block: the text shown and whether the key is deselected
ErrorMessageOf(message) == IF Falsy(message) THEN FallbackText ELSE message
\* a faulty variant: the patterns are searched without toLowerCase
isPermissionErrorCased(errorMessage) ==
    \/ includes(errorMessage, <<"permission">>)
    \/ includes(errorMessage, <<"403">>)
    \/ includes(errorMessage, <<"requested entity was not found">>)
isPermissionError(errorMessage) ==
    \/ includes(toLowerCase(errorMessage), <<"permission">>)
    \/ includes(toLowerCase(errorMessage), <<"403">>)
    \/ includes(toLowerCase(errorMessage), <<"requested entity was not found">>)
ErrorText(errorMessage) ==
    IF isPermissionError(errorMessage) THEN PermissionDeniedText ELSE errorMessage
\* a faulty variant: the catch block without setHasApiKey(false)
KeyAfterErrorKept(errorMessage, key) == key
KeyAfterError(errorMessage, key) ==
    IF isPermissionError(errorMessage) THEN FALSE ELSE key

\* URL.createObjectURL(blob) of call c
BlobUrl(c) == c

\* what is kept of a call: all of it for the observed call, the position
\* alone for the others
Settled(call) == call.pc \in {"resolved", "rejected"}
Kept(c, call) ==
    IF c = observed THEN call
    ELSE [NoCall EXCEPT !.pc = call.pc, !.image = call.image,
                        !.operation = IF Settled(call) THEN NoHandle ELSE call.operation,
                        !.requeries = IF Settled(call) THEN 0 ELSE call.requeries]

\* the state after a step of call c that left the call as r.call and the
\* generation state as r.gs: when the call settled, the rest of handleGenerate
\* runs in the same step
Settle(c, r) ==
    /\ calls' = [calls EXCEPT ![c] = Kept(c, r.call)]
    /\ IF r.call.pc = "rejected"
       THEN /\ genState' = GenerationState("error", Undefined,
                                           ErrorText(ErrorMessageOf(r.call.result)))
            /\ hasApiKey' = KeyAfterError(ErrorMessageOf(r.call.result), hasApiKey)
            /\ UNCHANGED videoUrl
       ELSE IF r.call.pc = "resolved"
       THEN /\ videoUrl' = BlobUrl(c)
            /\ genState' = GenerationState("completed", Undefined, Undefined)
            /\ UNCHANGED hasApiKey
       ELSE /\ genState' = r.gs
            /\ UNCHANGED <<hasApiKey, videoUrl>>
    /\ UNCHANGED <<image, nCalls, keyCheck, readers, observed>>

\* handleGenerate up to the first await: generateVeoVideo has reported
\* "Initiating" and issued generateVideos
handleGenerate ==
    /\ GenerateButtonShown
    /\ nCalls < MaxCalls
    /\ IF image = Null
       THEN UNCHANGED vars
       ELSE /\ nCalls' = nCalls + 1
            /\ calls' = [calls EXCEPT ![nCalls + 1] = Kept(nCalls + 1,
                   Log(Reported([NoCall EXCEPT !.pc = "submit", !.image = image],
                                "progress:init", InitiatingMessage),
                       <<"submit">>))]
            /\ genState' = onProgress(
                   GenerationState("generating", PreparingMessage, Undefined),
                   InitiatingMessage)
            /\ videoUrl' = Null
            /\ UNCHANGED <<hasApiKey, image, keyCheck, readers, observed>>

\* generateVideos resolved with handle h
submitResolves(c, h) ==
    /\ calls[c].pc = "submit"
    /\ Settle(c, LoopTest(
           Reported(Log([calls[c] EXCEPT !.operation = h], <<HandleTag(h)>>),
                    "progress:dream", DreamingMessage),
           onProgress(genState, DreamingMessage)))

\* generateVideos rejected with an error of message e
submitRejects(c, e) ==
    /\ calls[c].pc = "submit"
    /\ Settle(c, [call |-> Throw([calls[c] EXCEPT !.cause = e], SubmitErrorMessage(e)),
                  gs |-> genState])

\* a faulty variant: the timer acts as a deadline that ends the call
waitElapsedDeadline(c) ==
    /\ calls[c].pc = "wait"
    /\ Settle(c, [call |-> Throw(Log(calls[c], <<"wait">>), FallbackText), gs |-> genState])

\* the 10 s timer fired: getVideosOperation is issued
waitElapsed(c) ==
    /\ calls[c].pc = "wait"
    /\ Settle(c, [call |-> [Log(calls[c], <<"wait", "requery">>)
                                EXCEPT !.pc = "poll", !.requeries = @ + 1],
                  gs |-> genState])

\* getVideosOperation resolved with handle h; r is the random draw
pollResolves(c, h, r) ==
    /\ calls[c].pc = "poll"
    /\ h.done \/ calls[c].requeries < MaxPolls
    /\ Settle(c, LoopTest(
           Reported(Log([calls[c] EXCEPT !.operation = h], <<HandleTag(h)>>),
                    "progress:reassure", getRandomReassuringMessage(r)),
           onProgress(genState, getRandomReassuringMessage(r))))

\* a faulty variant: a failed re-query is tried again after the next wait
pollRejectsRetry(c, e) ==
    /\ calls[c].pc = "poll"
    /\ Settle(c, [call |-> [calls[c] EXCEPT !.cause = e, !.pc = "wait"], gs |-> genState])

\* getVideosOperation rejected with an error of message e
pollRejects(c, e) ==
    /\ calls[c].pc = "poll"
    /\ Settle(c, [call |-> Throw([calls[c] EXCEPT !.cause = e], PollErrorMessage(e)),
                  gs |-> genState])

\* fetch resolved with response resp
fetchResolves(c, resp) ==
    /\ calls[c].pc = "fetch"
    /\ Settle(c, [call |-> IF ResponseOk(resp)
                           THEN [Log([calls[c] EXCEPT !.response = resp], <<"blob">>)
                                    EXCEPT !.pc = "blob"]
                           ELSE Throw([calls[c] EXCEPT !.response = resp],
                                      DownloadErrorMessage(resp)),
                  gs |-> genState])

\* fetch rejected (no response at all) with an error of message e
fetchRejects(c, e) ==
    /\ calls[c].pc = "fetch"
    /\ Settle(c, [call |-> Throw([calls[c] EXCEPT !.cause = e], e), gs |-> genState])

\* response.blob() resolved: the blob URL is created and returned
blobResolves(c) ==
    /\ calls[c].pc = "blob"
    /\ Settle(c, [call |-> [Log(calls[c], <<"createObjectURL">>) EXCEPT !.pc = "resolved"],
                  gs |-> genState])

\* response.blob() rejected with an error of message e
blobRejects(c, e) ==
    /\ calls[c].pc = "blob"
    /\ Settle(c, [call |-> Throw([calls[c] EXCEPT !.cause = e], e), gs |-> genState])

\* A behaviour with an observed call is followed until that call settles: its
\* history is complete then, and what the program does afterwards is covered
\* by the behaviours that observe no call.
Observing == IF observed = NoneObserved THEN TRUE ELSE ~Settled(calls[observed])

Next ==
    \/ Observing /\ \E ok \in BOOLEAN, selected \in BOOLEAN : checkApiKey(ok, selected)
    \/ Observing /\ \E ok \in BOOLEAN : handleSelectKey(ok)
    \/ Observing /\ \E f \in Images : handleFileChange(f)
    \/ Observing /\ \E f \in Images, ok \in BOOLEAN : onloadend(f, ok)
    \/ Observing /\ reset
    \/ Observing /\ handleGenerate
    \/ Observing /\ \E c \in CallIds, h \in Handles : submitResolves(c, h)
    \/ Observing /\ \E c \in CallIds, e \in RemoteErrors : submitRejects(c, e)
    \/ Observing /\ \E c \in CallIds : waitElapsed(c)
    \/ Observing /\ \E c \in CallIds, h \in Handles, r \in RandomDraws : pollResolves(c, h, r)
    \/ Observing /\ \E c \in CallIds, e \in RemoteErrors : pollRejects(c, e)
    \/ Observing /\ \E c \in CallIds, resp \in Responses : fetchResolves(c, resp)
    \/ Observing /\ \E c \in CallIds, e \in RemoteErrors : fetchRejects(c, e)
    \/ Observing /\ \E c \in CallIds : blobResolves(c)
    \/ Observing /\ \E c \in CallIds, e \in RemoteErrors : blobRejects(c, e)

Spec == Init /\ [][Next]_vars

\* the call awaits a promise of the remote service or of the response
AwaitsPromise(c) == calls[c].pc \in {"submit", "poll", "fetch", "blob"}
\* Weak fairness of the steps that settle the promise call c awaits, written
\* out: such a step is enabled exactly while the call awaits a promise, and
\* it is the only step that moves the call from there.
PromiseSettles(c) ==
    \/ []<>(~AwaitsPromise(c))
    \/ []<><<AwaitsPromise(c) /\ calls'[c].pc # calls[c].pc>>_vars

\* The whole program, no call singled out, under fair scheduling: the event
\* loop fires a timer that was set, and a pending promise settles. The remote
\* service reports done or fails a re-query after MaxPolls re-queries at the
\* latest.
LiveInit == Init /\ observed = NoneObserved
LiveSpec ==
    /\ LiveInit
    /\ [][Next]_vars
    /\ \A c \in CallIds : WF_vars(waitElapsed(c)) /\ PromiseSettles(c)

\* ----------------------------------------------------------------- claims
InFlight(c) == calls[c].pc \in {"submit", "wait", "poll", "fetch", "blob"}
Watched == IF observed = NoneObserved THEN FALSE ELSE calls[observed].pc # "none"
\* the observed call (read under Watched only)
W == calls[IF observed = NoneObserved THEN 1 ELSE observed]
HandleTags == {"handle:done", "handle:pending"}
\* the tag of the handle obtained last before position i of a log
LastHandleBefore(log, i) ==
    LET js == {j \in 1..(i - 1) : log[j] \in HandleTags}
    IN  IF js = {} THEN "none" ELSE log[CHOOSE j \in js : \A k \in js : k <= j]
Positions(log, event) == {i \in DOMAIN log : log[i] = event}

\* C1: in every reachable state at most one generateVeoVideo call started by
\* handleGenerate has neither resolved nor rejected.
C1_AtMostOneInFlight == Cardinality({c \in CallIds : InFlight(c)}) <= 1

\* C2: when generateVideos fails with a permission-shaped error (its message
\* includes "permission" or "PERMISSION_DENIED"), generateVeoVideo rejects with
\* the PERMISSION_DENIED billing message, and handleGenerate sets the status to
\* error with the permission/billing text and hasApiKey to false.
C2_SubmitFailedPermissionShaped ==
    /\ Watched
    /\ W.pc = "rejected"
    /\ Count(W.log, "submit") = 1
    /\ \A i \in DOMAIN W.log : W.log[i] \notin HandleTags
    /\ \/ includes(W.cause, <<"permission">>)
       \/ includes(W.cause, <<"PERMISSION", "_DENIED">>)
C2_SubmitPermissionDenied ==
    C2_SubmitFailedPermissionShaped =>
        /\ W.result = <<"PERMISSION", "_DENIED",
               ": Please ensure you selected an API key from a project with active billing.">>
        /\ genState.status = "error"
        /\ genState.error = PermissionDeniedText
        /\ hasApiKey = FALSE
C2_Witness == C2_SubmitFailedPermissionShaped /\ W.cause = <<"PERMISSION", "_DENIED">>

\* C3: the link is extracted only when the handle obtained last is done, a
\* re-query is issued only when the handle obtained last is not done, and a
\* submit that returns a done handle is followed by no re-query.
C3_PollLoopExit ==
    Watched =>
        /\ \A i \in Positions(W.log, "link") :
               LastHandleBefore(W.log, i) = "handle:done"
        /\ W.pc \in {"fetch", "blob", "resolved"} =>
               W.operation.done /\ Positions(W.log, "link") # {}
        /\ \A i \in Positions(W.log, "requery") :
               LastHandleBefore(W.log, i) = "handle:pending"
        /\ W.pc \in {"wait", "poll"} => ~W.operation.done
        /\ (Len(W.log) >= 3 /\ W.log[3] = "handle:done") => Count(W.log, "requery") = 0
C3_Witness ==
    /\ Watched
    /\ Count(W.log, "requery") = 2
    /\ Positions(W.log, "link") # {}
    /\ W.pc = "fetch"

\* C4 (as stated): when a generateVeoVideo call has left the poll loop, the
\* number of reassuring progress messages it delivered equals the number of
\* poll-loop iterations (wait and re-query) it performed.
C4_OneMessagePerIteration ==
    (Watched /\ W.pc \notin {"wait", "poll"}) =>
        Count(W.log, "progress:reassure") = Count(W.log, "requery")
\* C4 (amended): every re-query that returns a handle is followed by exactly one
\* non-empty reassuring message, a re-query that fails by none: the messages
\* delivered are as many as the re-queries that returned a handle, one less
\* than the iterations when the call is awaiting a re-query or was rejected by
\* one; every text of the pool is non-empty.
C4_OneMessagePerAnsweredRequery ==
    Watched =>
        /\ \A i \in Positions(W.log, "requery") :
               \/ i = Len(W.log) /\ (W.pc = "poll" \/ (W.pc = "rejected" /\ W.cause # Undefined))
               \/ /\ i + 2 <= Len(W.log)
                  /\ W.log[i + 1] \in HandleTags
                  /\ W.log[i + 2] = "progress:reassure"
        /\ \A i \in Positions(W.log, "progress:reassure") :
               i > 2 /\ W.log[i - 1] \in HandleTags /\ W.log[i - 2] = "requery"
        /\ Count(W.log, "wait") = Count(W.log, "requery")
        /\ Count(W.log, "progress:reassure") =
               Count(W.log, "requery")
                 - (IF W.log[Len(W.log)] = "requery" THEN 1 ELSE 0)
        /\ ~W.blankProgress
C4_Witness ==
    /\ Watched
    /\ W.pc = "rejected"
    /\ Count(W.log, "requery") = 2
    /\ Count(W.log, "progress:reassure") = 1

\* C5: when the operation is done and its response has no video URI,
\* generateVeoVideo rejects with the "no video link" error, has issued no fetch
\* and does not resolve to a URL.
C5_DoneWithoutUri ==
    /\ Watched
    /\ W.operation.done
    /\ W.operation.uri \in {Undefined, <<>>}
C5_NoLinkIsAnError ==
    C5_DoneWithoutUri =>
        /\ W.pc = "rejected"
        /\ W.result = <<"Generation completed but no video link was found.">>
        /\ Count(W.log, "fetch") = 0
        /\ Count(W.log, "createObjectURL") = 0
        /\ videoUrl # BlobUrl(observed)
        /\ genState.status = "error"
C5_Witness == C5_DoneWithoutUri /\ W.operation.uri = <<>> /\ Count(W.log, "requery") = 1

\* C6: a non-success response with status 403 yields the forbidden-access
\* message, any other non-success status the "Failed to download video"
\* message with the status text; neither resolves, and a blob URL is created
\* only for a success response.
C6_FetchFailure ==
    Watched =>
        /\ (W.response # NoResponse /\ ~ResponseOk(W.response)) =>
              /\ W.pc = "rejected"
              /\ Count(W.log, "createObjectURL") = 0
              /\ videoUrl # BlobUrl(observed)
              /\ W.result =
                    IF W.response.status = 403
                    THEN <<"PERMISSION", "_DENIED",
                           ": Access to the generated file was denied. Check project billing.">>
                    ELSE <<"Failed to download video: ">> \o W.response.statusText
        /\ Count(W.log, "createObjectURL") > 0 =>
              W.response # NoResponse /\ ResponseOk(W.response)
C6_Witness ==
    /\ Watched
    /\ W.response.status = 403
    /\ W.pc = "rejected"

\* C7 (as stated): a run in which submit succeeded, the handle obtained last is
\* done and carries a URI, and the fetch returned a success status, resolves.
C7_SuccessStatusResolves ==
    (Watched /\ Settled(W) /\ W.response # NoResponse /\ ResponseOk(W.response)) =>
        W.pc = "resolved"
\* C7 (amended): such a run resolves provided the body is read without error
\* (response.blob() resolves); a resolved call has issued exactly one submit,
\* exactly one fetch and one re-query per pending handle, the only done handle
\* being the last one, and handleGenerate has stored its URL and set the
\* status to completed.
C7_EndToEndSuccess ==
    Watched =>
        /\ (Settled(W) /\ W.response # NoResponse /\ ResponseOk(W.response)
              /\ W.cause = Undefined) => W.pc = "resolved"
        /\ W.pc = "resolved" =>
              /\ Count(W.log, "submit") = 1
              /\ Count(W.log, "fetch") = 1
              /\ Count(W.log, "requery") = Count(W.log, "handle:pending")
              /\ Count(W.log, "handle:done") = 1
              /\ ~Falsy(W.operation.uri)
              /\ ResponseOk(W.response)
              /\ videoUrl = BlobUrl(observed)
              /\ genState = GenerationState("completed", Undefined, Undefined)
C7_Witness ==
    /\ Watched
    /\ W.pc = "resolved"
    /\ Count(W.log, "requery") = 2

\* the failure's message is permission/billing-related: in lower case it
\* holds "permission", "403" or "requested entity was not found"
PermissionRelated(message) ==
    \/ includes(toLowerCase(message), <<"permission">>)
    \/ includes(toLowerCase(message), <<"403">>)
    \/ includes(toLowerCase(message), <<"requested entity was not found">>)
\* the step in which the observed call rejects and handleGenerate handles it
ObservedRejects == Watched /\ ~Settled(W) /\ W'.pc = "rejected"

\* C8 (as stated): a failure that is not permission/billing-related is shown
\* with its own message and leaves hasApiKey unchanged; a permission/billing
\* failure is shown as the fixed Permission Denied text and sets hasApiKey to
\* false.
C8_TwoCategoriesVerbatim ==
    [][ObservedRejects =>
          /\ genState'.status = "error"
          /\ IF PermissionRelated(W'.result)
             THEN genState'.error = PermissionDeniedText /\ hasApiKey' = FALSE
             ELSE genState'.error = W'.result /\ hasApiKey' = hasApiKey]_vars
\* C8 (amended): the same, except that a failure without a message (absent or
\* empty) is shown as the fixed text "Something went wrong during generation."
C8_TwoCategories ==
    [][ObservedRejects =>
          /\ genState'.status = "error"
          /\ IF PermissionRelated(W'.result)
             THEN genState'.error = PermissionDeniedText /\ hasApiKey' = FALSE
             ELSE /\ genState'.error =
                        IF W'.result = <<>>
                        THEN <<"Something went wrong during generation.">>
                        ELSE W'.result
                  /\ hasApiKey' = hasApiKey]_vars
C8_Witness ==
    /\ Watched
    /\ W.pc = "rejected"
    /\ W.result = <<"Quota exceeded for this project">>
    /\ genState.error = W.result
    /\ hasApiKey

\* C9: a handleGenerate call starts (and issues its submit) only while
\* hasApiKey is true; while hasApiKey is false no call starts.
C9_KeyGate ==
    [][(nCalls' # nCalls \/ \E c \in CallIds : calls[c].pc = "none" /\ calls'[c].pc # "none")
          => hasApiKey /\ hasApiKey']_vars
C9_Witness ==
    /\ ~hasApiKey
    /\ ControlsShown
    /\ nCalls = 1
    /\ nCalls < MaxCalls

\* C10: within one call the remote steps come in the order submit, then
\* (wait, re-query) any number of times, then fetch (and its body), then the
\* return; none but the poll iteration is repeated; a failure at submit,
\* re-query or fetch rejects the call at once, and a settled call takes no
\* further step.
StepEvents == {"submit", "wait", "requery", "fetch", "blob", "createObjectURL"}
IsStep(e) == e \in StepEvents
StepsInOrder(steps) ==
    /\ Len(steps) > 0 => steps[1] = "submit"
    /\ \A i \in 2..Len(steps) :
          CASE steps[i] = "wait" -> steps[i - 1] \in {"submit", "requery"}
            [] steps[i] = "requery" -> steps[i - 1] = "wait"
            [] steps[i] = "fetch" -> steps[i - 1] \in {"submit", "requery"}
            [] steps[i] = "blob" -> steps[i - 1] = "fetch"
            [] steps[i] = "createObjectURL" -> steps[i - 1] = "blob"
            [] OTHER -> FALSE
C10_StateOfObserved ==
    Watched =>
        /\ StepsInOrder(SelectSeq(W.log, IsStep))
        /\ W.cause # Undefined => W.pc = "rejected"
        /\ (W.response # NoResponse /\ ~ResponseOk(W.response)) => W.pc = "rejected"
        /\ W.pc = "rejected" =>
              \/ W.cause # Undefined
              \/ W.response # NoResponse /\ ~ResponseOk(W.response)
              \/ W.operation.done /\ Falsy(W.operation.uri)
        /\ W.pc = "resolved" <=> Count(W.log, "createObjectURL") = 1
C10_LinearSingleAttempt ==
    /\ []C10_StateOfObserved
    /\ [][\A c \in CallIds : Settled(calls[c]) => calls'[c] = calls[c]]_vars
C10_Witness ==
    /\ Watched
    /\ W.pc = "rejected"
    /\ W.cause # Undefined
    /\ Count(W.log, "requery") = 2
    /\ Count(W.log, "fetch") = 0

C12_OnlyTheAttemptMutates ==
    [][(\E c \in CallIds : InFlight(c)) /\ <<genState, videoUrl>>' # <<genState, videoUrl>>
          => \E c \in CallIds : InFlight(c) /\ calls'[c] # calls[c]]_vars

\* ---- C13
\* C13: a call whose re-query fails with a message that includes "Requested
\* entity was not found", "permission" or "PERMISSION_DENIED" rejects with the
\* session-expired message, and a call whose fetch returns status 403 rejects
\* with the forbidden-access message; both, and every failed re-query whose
\* message names permission in any letter case, end with status error, the
\* Permission Denied text and hasApiKey false.
C13_RequeryFailed ==
    /\ Watched
    /\ W.pc = "rejected"
    /\ W.cause # Undefined
    /\ W.log[Len(W.log)] = "requery"
C13_KeyDeselected ==
    /\ genState = GenerationState("error", Undefined,
           <<"Permission",
             " Denied. Veo requires an API key from a project with billing enabled. Please re-select your key.">>)
    /\ hasApiKey = FALSE
C13_PollAndForbiddenResetKey ==
    /\ (/\ C13_RequeryFailed
        /\ \/ includes(W.cause, <<"Requested entity was not found">>)
           \/ includes(W.cause, <<"permission">>)
           \/ includes(W.cause, <<"PERMISSION", "_DENIED">>))
          => /\ W.result = <<"API Key session expired or lacks ", "permission",
                             ". Please re-select a key from a paid project.">>
             /\ C13_KeyDeselected
    /\ (C13_RequeryFailed /\ includes(toLowerCase(W.cause), <<"permission">>))
          => C13_KeyDeselected
    /\ (Watched /\ W.response # NoResponse /\ W.response.status = 403)
          => /\ W.pc = "rejected"
             /\ W.result = ForbiddenMessage
             /\ C13_KeyDeselected
\* the second re-query failed for an entity not found, with the key selected
\* until then
C13_Witness ==
    /\ C13_RequeryFailed
    /\ includes(W.cause, <<"Requested entity was not found">>)
    /\ Count(W.log, "requery") = 2
    /\ ~hasApiKey

\* ---- C14
\* C14: the progress messages of a call come in a fixed order relative to its
\* remote interactions: "Initiating" is the first event and the submit
\* follows it; "Veo is dreaming" comes once, right after the handle the submit
\* returned and before every re-query; each reassuring message comes right
\* after the handle a re-query returned; "Video ready" comes once the link
\* of a done handle with a URI has been read, right before the fetch, and no
\* reassuring message follows it.
C14_ProgressOrder ==
    Watched =>
        /\ W.log[1] = "progress:init" /\ W.log[2] = "submit"
        /\ Count(W.log, "progress:init") = 1 /\ Count(W.log, "submit") = 1
        /\ (Len(W.log) >= 3 /\ W.log[3] \in HandleTags)
               => Len(W.log) >= 4 /\ W.log[4] = "progress:dream"
        /\ \A i \in Positions(W.log, "progress:dream") :
               /\ i = 4 /\ W.log[3] \in HandleTags
               /\ \A j \in Positions(W.log, "requery") : i < j
        /\ \A i \in Positions(W.log, "progress:reassure") :
               /\ W.log[i - 1] \in HandleTags
               /\ W.log[i - 2] = "requery"
        /\ \A i \in Positions(W.log, "progress:ready") :
               /\ W.log[i - 1] = "link"
               /\ LastHandleBefore(W.log, i) = "handle:done"
               /\ ~Falsy(W.operation.uri)
               /\ Len(W.log) > i /\ W.log[i + 1] = "fetch"
               /\ \A j \in Positions(W.log, "fetch") : i < j
               /\ \A j \in Positions(W.log, "progress:reassure") : j < i
        /\ Count(W.log, "progress:ready") <= 1
\* a call that reported all four kinds of message: two re-queries answered,
\* the second with a done handle, the fetch issued
C14_Witness ==
    /\ Watched
    /\ W.pc = "fetch"
    /\ Count(W.log, "progress:reassure") = 2
    /\ Count(W.log, "progress:ready") = 1
    /\ Count(W.log, "progress:dream") = 1

\* ---- C15
\* C15: every re-query of a call is preceded by its own completed wait: the
\* event right before a re-query is a wait, so no re-query follows the submit
\* or another re-query without a wait between them; the waits completed are
\* as many as the re-queries issued, or one more while the call is waiting.
C15_WaitBeforeEveryRequery ==
    Watched =>
        /\ \A i \in Positions(W.log, "requery") : W.log[i - 1] = "wait"
        /\ \A i \in Positions(W.log, "wait") : W.log[i - 1] \in {"progress:dream", "progress:reassure"}
        /\ Count(W.log, "wait") \in {Count(W.log, "requery"), Count(W.log, "requery") + 1}
        /\ Count(W.log, "requery") = W.requeries
        /\ W.pc = "wait" => Count(W.log, "wait") = W.requeries
        /\ W.pc = "poll" => W.log[Len(W.log)] = "requery"
\* the second re-query is pending, two waits behind it
C15_Witness ==
    /\ Watched
    /\ W.pc = "poll"
    /\ Count(W.log, "wait") = 2
    /\ Count(W.log, "requery") = 2

\* ---- C16
\* C16: the video URL is non-null exactly when the status is 'completed';
\* starting a generation, a failure, a new file and a reset leave it null.
C16_VideoIffCompleted == (videoUrl # Null) <=> (genState.status = "completed")

\* ---- C17
\* C17: a result never outlives its input: whenever the status is 'completed'
\* an image is held and the video shown was generated from that image.
C17_ResultOfHeldImage ==
    genState.status = "completed" =>
        /\ image # Null
        /\ videoUrl # Null
        /\ \A c \in CallIds : videoUrl = BlobUrl(c) => calls[c].image = image

\* ---- C18
\* C18: the generation state carries an error text, a non-empty one, exactly
\* when the status is 'error'; a step of a call that does not settle it (a
\* step that at most reports progress) leaves the status and the error text
\* as they are.
C18_ErrorTextIffError == ~Falsy(genState.error) <=> genState.status = "error"
C18_ErrorOnlyWithErrorStatus ==
    /\ []C18_ErrorTextIffError
    /\ [][\A c \in CallIds :
            (InFlight(c) /\ calls'[c] # calls[c] /\ ~Settled(calls'[c]))
               => /\ genState'.status = genState.status
                  /\ genState'.error = genState.error]_vars
\* a call has reported "Veo is dreaming" after the failure of another call
\* set the error
C18_Witness ==
    /\ genState.status = "error"
    /\ genState.error = FallbackText
    /\ genState.progressMessage = DreamingMessage

====
